---- MODULE Spec2Model ----
(***************************************************************************)
(* Model of deauth_detector.py: the DeauthDetector engine (process_event,  *)
(* generate_alert, get_stats), its monitor loop (start_monitor,            *)
(* parse_frame) and the callers in demo_mode and main.                     *)
(*                                                                         *)
(* MAC addresses, timestamps and frame types are strings, as in the code.  *)
(* A reading of time.time() is an integer number of seconds; the readings  *)
(* are inputs, and nothing in the code makes them monotonic.               *)
(***************************************************************************)
EXTENDS Integers, Sequences, FiniteSets, TLC

VARIABLES
    threshold,      \* self.threshold
    window,         \* self.window
    events,         \* self.events: list of DeauthEvent
    alerts,         \* self.alerts: list of Alert
    running,        \* self.running
    deauth_counts,  \* self.deauth_counts: defaultdict(list), key -> readings
    source_counts,  \* self.source_counts: Counter, as <<mac, count>> in insertion order
    target_counts,  \* self.target_counts: Counter, as <<mac, count>> in insertion order
    stats,          \* the dict returned by the last get_stats call, NoStats before
    pc,             \* where the monitor loop of start_monitor stands
    cur,            \* the event a process_event call of the loop is working on
    current_time,   \* the last reading of time.time() (local of process_event)
    last_line,      \* the line handed last to parse_frame, as its parts
    last_op,        \* history: the operation that ran last
    calls,          \* history: number of process_event calls that returned
    recorded,       \* history: key -> every reading ever appended for the key
    want            \* history: the N the caller of the last snapshot asked for

engine == <<events, alerts, deauth_counts, source_counts, target_counts>>
config == <<threshold, window>>
monitor == <<pc, cur>>
vars == <<threshold, window, events, alerts, running, deauth_counts,
          source_counts, target_counts, stats, pc, cur, current_time,
          last_line, last_op, calls, recorded, want>>

------------------------------------------------------------------------------
(* Bounds of the model and the inputs it draws from.                        *)

MaxEvents == 3
MaxClock == 2

Thresholds == {1, 2}
Windows == {1, 2}
Clock == 0..MaxClock

BROADCAST == "ff:ff:ff:ff:ff:ff"

DeauthEvent(ts, src, dst, bssid, ftype, reason) ==
    [timestamp |-> ts, source_mac |-> src, dest_mac |-> dst, bssid |-> bssid,
     frame_type |-> ftype, reason_code |-> reason]

EventInputs ==
    { DeauthEvent("2024-01-01T10:00:00", "aa:bb:cc:dd:ee:01", "11:22:33:44:55:66",
                  "aa:bb:cc:dd:ee:01", "deauth", 1),
      DeauthEvent("2024-01-01T10:00:01", "aa:bb:cc:dd:ee:01", BROADCAST,
                  "00:00:00:00:00:ap", "disassoc", 0),
      DeauthEvent("2024-01-01T10:00:02", "aa:bb:cc:dd:ee:02", "FF:FF:FF:FF:FF:FF",
                  "aa:bb:cc:dd:ee:02", "deauth", 7) }

NoStats == [total_events |-> -1]
NoEvent == [timestamp |-> "none"]

------------------------------------------------------------------------------
(* collections.Counter: a dict, so its items are in insertion order.        *)

CounterIndex(c, mac) == {i \in 1..Len(c) : c[i][1] = mac}

\* A counter that records a MAC once and never counts it again
CounterIncrOnce(c, mac) ==
    IF CounterIndex(c, mac) = {} THEN Append(c, <<mac, 1>>) ELSE c

\* A counter that leaves an empty MAC out
CounterIncrNonEmpty(c, mac) ==
    IF mac = "" THEN c
    ELSE IF CounterIndex(c, mac) = {}
    THEN Append(c, <<mac, 1>>)
    ELSE LET i == CHOOSE j \in CounterIndex(c, mac) : TRUE
         IN  [c EXCEPT ![i] = <<mac, c[i][2] + 1>>]

\* counter[mac] += 1
CounterIncr(c, mac) ==
    IF CounterIndex(c, mac) = {}
    THEN Append(c, <<mac, 1>>)
    ELSE LET i == CHOOSE j \in CounterIndex(c, mac) : TRUE
         IN  [c EXCEPT ![i] = <<mac, c[i][2] + 1>>]

RECURSIVE CounterTotal(_)
CounterTotal(c) == IF c = <<>> THEN 0 ELSE c[1][2] + CounterTotal(Tail(c))

\* A sort that puts the later of two equal counts first
RankTiesReversed(c, i) ==
    Cardinality({j \in 1..Len(c) : c[j][2] > c[i][2]})
    + Cardinality({j \in 1..Len(c) : c[j][2] = c[i][2] /\ j > i}) + 1

\* Position of item i in sorted(items, key=count, reverse=True): the sort is
\* stable, so equal counts stay in insertion order.
Rank(c, i) ==
    Cardinality({j \in 1..Len(c) : c[j][2] > c[i][2]})
    + Cardinality({j \in 1..Len(c) : c[j][2] = c[i][2] /\ j < i}) + 1

\* Counter.most_common(n) == heapq.nlargest(n, items, key=count)
most_common(c, n) ==
    LET sorted == [k \in 1..Len(c) |-> c[CHOOSE i \in 1..Len(c) : Rank(c, i) = k]]
    IN  SubSeq(sorted, 1, IF Len(c) < n THEN Len(c) ELSE n)

------------------------------------------------------------------------------
(* process_event, line by line.                                             *)

\* key = f"{event.source_mac}->{event.dest_mac}"
Key(e) == e.source_mac \o "->" \o e.dest_mac

\* defaultdict(list).__getitem__
Lookup(dc, key) == IF key \in DOMAIN dc THEN dc[key] ELSE <<>>

\* A store that holds the key written last and no other
StoreOnly(dc, key, seq) == (key :> seq)

\* self.deauth_counts[key] = ...
Store(dc, key, seq) == (key :> seq) @@ dc

\* self.deauth_counts[key].append(current_time)
Record(dc, key, t) == Store(dc, key, Append(Lookup(dc, key), t))

\* An entry exactly window seconds old still counted
FreshInclusive(t, now) == now - t <= window

\* A window one second shorter than configured
FreshOffByOne(t, now) == now - t < window - 1

Fresh(t, now) == now - t < window

\* A prune that pops stale readings off the front and stops at the first
\* fresh one
RECURSIVE PruneFront(_, _)
PruneFront(seq, now) ==
    IF seq = <<>> \/ Fresh(Head(seq), now) THEN seq ELSE PruneFront(Tail(seq), now)

\* [t for t in self.deauth_counts[key] if current_time - t < self.window]
Prune(seq, now) == SelectSeq(seq, LAMBDA t : Fresh(t, now))

\* A strict comparison, and an alert on the crossing only
ShouldAlertStrict(n) == n > threshold
ShouldAlertOnCrossing(n) == n = threshold

\* if len(self.deauth_counts[key]) >= self.threshold
ShouldAlert(n) == n >= threshold

\* A comparison of dest_mac that ignores case
ClassifyAnyCase(e) ==
    IF e.dest_mac \in {BROADCAST, "FF:FF:FF:FF:FF:FF"}
    THEN [attack_type |-> "Broadcast Deauth Attack", severity |-> "critical",
          description |-> "Broadcast deauth flood from " \o e.source_mac]
    ELSE [attack_type |-> "Targeted Deauth Attack", severity |-> "high",
          description |-> "Targeted deauth attack: " \o e.source_mac
                          \o " -> " \o e.dest_mac]

\* if event.dest_mac == "ff:ff:ff:ff:ff:ff": ... else: ...
Classify(e) ==
    IF e.dest_mac = BROADCAST
    THEN [attack_type |-> "Broadcast Deauth Attack", severity |-> "critical",
          description |-> "Broadcast deauth flood from " \o e.source_mac]
    ELSE [attack_type |-> "Targeted Deauth Attack", severity |-> "high",
          description |-> "Targeted deauth attack: " \o e.source_mac
                          \o " -> " \o e.dest_mac]

\* An Alert whose bssid is taken from the source address
generate_alert_src_bssid(e, count) ==
    LET c == Classify(e)
    IN  [timestamp |-> e.timestamp, severity |-> c.severity,
         attack_type |-> c.attack_type, source_mac |-> e.source_mac,
         target_mac |-> e.dest_mac, bssid |-> e.source_mac, frame_count |-> count,
         description |-> c.description]

\* A log kept newest first
PrependAlert(log, a) == <<a>> \o log

\* self.alerts.append(alert)
AppendAlert(log, a) == Append(log, a)

\* The Alert that generate_alert(event, count) appends
generate_alert(e, count) ==
    LET c == Classify(e)
    IN  [timestamp |-> e.timestamp, severity |-> c.severity,
         attack_type |-> c.attack_type, source_mac |-> e.source_mac,
         target_mac |-> e.dest_mac, bssid |-> e.bssid, frame_count |-> count,
         description |-> c.description]

\* One whole call process_event(event) in which time.time() returns t
process_event(e, t) ==
    LET key == Key(e)
        appended == Record(deauth_counts, key, t)
        pruned == Store(appended, key, Prune(appended[key], t))
        n == Len(pruned[key])
    IN  /\ events' = Append(events, e)
        /\ source_counts' = CounterIncr(source_counts, e.source_mac)
        /\ target_counts' = CounterIncr(target_counts, e.dest_mac)
        /\ deauth_counts' = pruned
        /\ alerts' = IF ShouldAlert(n) THEN AppendAlert(alerts, generate_alert(e, n))
                     ELSE alerts
        /\ current_time' = t
        /\ recorded' = Record(recorded, key, t)
        /\ calls' = calls + 1
        /\ last_op' = "process_event"
        /\ UNCHANGED <<config, running, stats, monitor, want>>

TopN == 5

get_stats_result ==
    [total_events |-> Len(events),
     total_alerts |-> Len(alerts),
     unique_sources |-> Len(source_counts),
     unique_targets |-> Len(target_counts),
     top_sources |-> most_common(source_counts, TopN),
     top_targets |-> most_common(target_counts, TopN)]

\* A snapshot that starts a new reporting period: it clears the logs
get_stats_and_reset ==
    /\ stats' = get_stats_result
    /\ events' = <<>>
    /\ alerts' = <<>>
    /\ last_op' = "get_stats"
    /\ UNCHANGED <<config, deauth_counts, source_counts, target_counts, running,
                   monitor, current_time, last_line, calls, recorded>>

get_stats ==
    /\ stats' = get_stats_result
    /\ last_op' = "get_stats"
    /\ UNCHANGED <<config, engine, running, monitor, current_time, last_line,
                   calls, recorded>>

\* A caller that would like the top n entries: get_stats takes no argument,
\* so all it can do is call get_stats().
Snapshot(n) == want' = n /\ get_stats

------------------------------------------------------------------------------
(* The engine driven directly, as demo_mode drives it.                      *)

\* DeauthDetector.__init__
Construct(th, w) ==
    /\ threshold = th
    /\ window = w
    /\ events = <<>>
    /\ alerts = <<>>
    /\ running = FALSE
    /\ deauth_counts = <<>>
    /\ source_counts = <<>>
    /\ target_counts = <<>>
    /\ stats = NoStats
    /\ pc = "created"
    /\ cur = NoEvent
    /\ current_time = 0
    /\ last_line = <<>>
    /\ last_op = "init"
    /\ calls = 0
    /\ recorded = <<>>
    /\ want = 0

Init == \E th \in Thresholds, w \in Windows : Construct(th, w)

Process ==
    /\ Len(events) < MaxEvents
    /\ \E e \in EventInputs, t \in Clock : process_event(e, t)
    /\ UNCHANGED last_line

Report == Snapshot(TopN)

Next == Process \/ Report

Spec == Init /\ [][Next]_vars

------------------------------------------------------------------------------
(* The engine built as demo_mode builds it, DeauthDetector("demo",          *)
(* threshold=3, window=10), and fed two streams, A->B and C->broadcast, in  *)
(* the order of their clock readings.                                       *)

MaxScenarioEvents == 7

ScenarioThreshold == 3
ScenarioWindow == 10
ScenarioClock == {0, 1, 2, 5, 11}

EventAB ==
    DeauthEvent("2024-01-01T10:00:00", "aa:bb:cc:dd:ee:01", "11:22:33:44:55:66",
                "aa:bb:cc:dd:ee:01", "deauth", 1)
EventCBroadcast ==
    DeauthEvent("2024-01-01T10:00:05", "aa:bb:cc:dd:ee:02", BROADCAST,
                "aa:bb:cc:dd:ee:02", "deauth", 1)
ScenarioEvents == {EventAB, EventCBroadcast}

ScenarioInit == Construct(ScenarioThreshold, ScenarioWindow)

ScenarioProcess ==
    /\ Len(events) < MaxScenarioEvents
    /\ \E e \in ScenarioEvents, t \in ScenarioClock :
          /\ t >= current_time
          /\ process_event(e, t)
    /\ UNCHANGED last_line

ScenarioNext == ScenarioProcess

SpecScenario == ScenarioInit /\ [][ScenarioNext]_vars

------------------------------------------------------------------------------
(* A detector with the default threshold and window, fed frames of six      *)
(* sources and then asked for its statistics, as demo_mode and main ask.    *)

MaxStatEvents == 6

DefaultThreshold == 10
DefaultWindow == 60

StatSource(i) == <<"aa:bb:cc:dd:ee:01", "aa:bb:cc:dd:ee:02", "aa:bb:cc:dd:ee:03",
                   "aa:bb:cc:dd:ee:04", "aa:bb:cc:dd:ee:05", "aa:bb:cc:dd:ee:06">>[i]
StatTarget(i) == <<"11:22:33:44:55:66", BROADCAST, "77:88:99:aa:bb:cc">>[(i % 3) + 1]

StatEvents ==
    { DeauthEvent("2024-01-01T10:00:00", StatSource(i), StatTarget(i),
                  StatSource(i), "deauth", 1) : i \in 1..6 }

\* The numbers of entries a caller may wish for
Wanted == {2}

StatsInit == Construct(DefaultThreshold, DefaultWindow)

StatsProcess ==
    /\ stats = NoStats
    /\ Len(events) < MaxStatEvents
    /\ \E e \in StatEvents : process_event(e, 0)
    /\ UNCHANGED last_line

StatsReport ==
    /\ stats = NoStats
    /\ \E n \in Wanted : Snapshot(n)

StatsNext == StatsProcess \/ StatsReport

SpecStats == StatsInit /\ [][StatsNext]_vars

------------------------------------------------------------------------------
(* parse_frame.  A line of tcpdump output is the sequence of its            *)
(* whitespace-separated parts, and a part is the sequence of its            *)
(* characters.                                                              *)

UpperCase == <<"A", "B", "C", "D", "E", "F", "G", "H", "I", "J", "K", "L", "M",
               "N", "O", "P", "Q", "R", "S", "T", "U", "V", "W", "X", "Y", "Z">>
LowerCase == <<"a", "b", "c", "d", "e", "f", "g", "h", "i", "j", "k", "l", "m",
               "n", "o", "p", "q", "r", "s", "t", "u", "v", "w", "x", "y", "z">>

LowerChar(ch) ==
    IF \E i \in 1..26 : UpperCase[i] = ch
    THEN LowerCase[CHOOSE i \in 1..26 : UpperCase[i] = ch]
    ELSE ch

\* part.lower(), as a string
RECURSIVE Lower(_)
Lower(part) == IF part = <<>> THEN "" ELSE LowerChar(Head(part)) \o Lower(Tail(part))

\* part.count(ch)
Count(part, ch) == Cardinality({i \in 1..Len(part) : part[i] = ch})

MacLen == 17
MacColons == 5

\* A test that counts the colons and not the characters
MacShapedByColons(part) == Count(part, ":") = MacColons

\* len(part) == 17 and part.count(':') == 5
MacShaped(part) == Len(part) = MacLen /\ Count(part, ":") = MacColons

Deauthentication ==
    <<"D", "e", "a", "u", "t", "h", "e", "n", "t", "i", "c", "a", "t", "i", "o", "n">>

\* needle in line: the needle holds no whitespace, so it lies within one part
Contains(line, needle) ==
    \E k \in 1..Len(line) :
        \E i \in 1..(Len(line[k]) - Len(needle) + 1) :
            SubSeq(line[k], i, i + Len(needle) - 1) = needle

RECURSIVE Macs(_)
Macs(line) ==
    IF line = <<>> THEN <<>>
    ELSE IF MacShaped(Head(line)) THEN <<Lower(Head(line))>> \o Macs(Tail(line))
    ELSE Macs(Tail(line))

\* The event parse_frame hands to process_event when datetime.now() is ts,
\* NoEvent when it hands over none
parse_frame(line, ts) ==
    LET macs == Macs(line)
        frame_type == IF Contains(line, Deauthentication) THEN "deauth" ELSE "disassoc"
    IN  IF Len(macs) >= 2
        THEN DeauthEvent(ts, macs[1], macs[2],
                         IF Len(macs) > 2 THEN macs[3] ELSE macs[1], frame_type, 0)
        ELSE NoEvent

------------------------------------------------------------------------------
(* start_monitor: the loop reads a line, parse_frame hands an event to      *)
(* process_event, and process_event runs statement by statement.  Ctrl+C    *)
(* raises KeyboardInterrupt in the main thread between any two of them.     *)

MaxMonitorEvents == 2

\* A part of six octets hh and a last octet hl
MacPart(h, l) ==
    <<h, h, ":", h, h, ":", h, h, ":", h, h, ":", h, h, ":", h, l>>
TimePart ==
    <<"1", "0", ":", "0", "0", ":", "0", "0", ".", "0", "0", "0", "0", "0", "0">>
DisassocPart == <<"D", "i", "s", "A", "s", "s", "o", "c">>
ReasonPart == <<"(", "D", "e", "a", "u", "t", "h", "e", "n", "t", "i", "c", "a",
                "t", "i", "o", "n", ")", ":">>

Lines ==
    { <<>>,
      <<TimePart, MacPart("a", "1"), ReasonPart>>,
      <<TimePart, MacPart("A", "1"), MacPart("F", "F"), ReasonPart>>,
      <<TimePart, MacPart("a", "2"), MacPart("b", "1"), MacPart("c", "1"),
        DisassocPart>> }

Timestamps == {"2024-01-01T10:00:00.000001"}

InProcessEvent == {"l162", "l165", "l166", "l169", "l174", "l183"}

\* A start that begins with empty logs, counters and window store
start_monitor_fresh ==
    /\ pc \in {"created", "stopped", "failed"}
    /\ running' = TRUE
    /\ pc' \in {"loop", "failed"}
    /\ last_op' = "start_monitor"
    /\ events' = <<>>
    /\ alerts' = <<>>
    /\ deauth_counts' = <<>>
    /\ source_counts' = <<>>
    /\ target_counts' = <<>>
    /\ UNCHANGED <<config, stats, cur, current_time, calls, recorded, want, last_line>>

\* Lines 98-118: running is set and tcpdump is started, or Popen raises and
\* the handler of lines 127-128 prints the error and start_monitor returns.
\* A caller may call it again once it has returned.
start_monitor ==
    /\ pc \in {"created", "stopped", "failed"}
    /\ running' = TRUE
    /\ pc' \in {"loop", "failed"}
    /\ last_op' = "start_monitor"
    /\ UNCHANGED <<config, engine, stats, cur, current_time, calls, recorded, want, last_line>>

\* Lines 120-123 and parse_frame up to its call of process_event
read_line ==
    /\ pc = "loop"
    /\ running
    /\ Len(events) < MaxMonitorEvents
    /\ \E line \in Lines, ts \in Timestamps :
          LET e == parse_frame(line, ts)
          IN  /\ last_line' = line
              /\ cur' = e
              /\ pc' = IF e = NoEvent THEN "loop" ELSE "l162"
    /\ last_op' = "read_line"
    /\ UNCHANGED <<config, engine, running, stats, current_time, calls, recorded, want>>

\* self.events.append(event)
step_l162 ==
    /\ pc = "l162"
    /\ events' = Append(events, cur)
    /\ pc' = "l165"
    /\ UNCHANGED <<config, alerts, deauth_counts, source_counts, target_counts,
                   running, stats, cur, current_time, last_op, calls, recorded, want, last_line>>

\* self.source_counts[event.source_mac] += 1
step_l165 ==
    /\ pc = "l165"
    /\ source_counts' = CounterIncr(source_counts, cur.source_mac)
    /\ pc' = "l166"
    /\ UNCHANGED <<config, events, alerts, deauth_counts, target_counts,
                   running, stats, cur, current_time, last_op, calls, recorded, want, last_line>>

\* self.target_counts[event.dest_mac] += 1
step_l166 ==
    /\ pc = "l166"
    /\ target_counts' = CounterIncr(target_counts, cur.dest_mac)
    /\ pc' = "l169"
    /\ UNCHANGED <<config, events, alerts, deauth_counts, source_counts,
                   running, stats, cur, current_time, last_op, calls, recorded, want, last_line>>

\* Lines 169-171: the key, the reading of the clock and the append
step_l169 ==
    /\ pc = "l169"
    /\ \E t \in Clock :
          /\ current_time' = t
          /\ deauth_counts' = Record(deauth_counts, Key(cur), t)
          /\ recorded' = Record(recorded, Key(cur), t)
    /\ pc' = "l174"
    /\ UNCHANGED <<config, events, alerts, source_counts, target_counts,
                   running, stats, cur, last_op, calls, want, last_line>>

\* Lines 174-180: the prune (and print_event)
step_l174 ==
    /\ pc = "l174"
    /\ deauth_counts' = Store(deauth_counts, Key(cur),
                              Prune(deauth_counts[Key(cur)], current_time))
    /\ pc' = "l183"
    /\ UNCHANGED <<config, events, alerts, source_counts, target_counts,
                   running, stats, cur, current_time, last_op, calls, recorded, want, last_line>>

\* Lines 183-184: the threshold check, generate_alert, and the return
step_l183 ==
    /\ pc = "l183"
    /\ LET n == Len(deauth_counts[Key(cur)])
       IN  alerts' = IF ShouldAlert(n) THEN AppendAlert(alerts, generate_alert(cur, n))
                     ELSE alerts
    /\ calls' = calls + 1
    /\ last_op' = "process_event"
    /\ cur' = NoEvent
    /\ pc' = "loop"
    /\ UNCHANGED <<config, events, deauth_counts, source_counts, target_counts,
                   running, stats, current_time, recorded, want, last_line>>

\* Lines 125-126: KeyboardInterrupt unwinds whatever the loop was doing
\* (parse_frame catches Exception only) and start_monitor returns
keyboard_interrupt ==
    /\ pc \in {"loop"} \cup InProcessEvent
    /\ running' = FALSE
    /\ cur' = NoEvent
    /\ pc' = "stopped"
    /\ last_op' = "keyboard_interrupt"
    /\ UNCHANGED <<config, engine, stats, current_time, calls, recorded, want, last_line>>

\* main, lines 333-336: the statistics and the logs are read after the stop
final_report ==
    /\ pc \in {"stopped", "failed"}
    /\ stats = NoStats
    /\ Snapshot(TopN)

MonitorNext ==
    \/ start_monitor
    \/ read_line
    \/ step_l162
    \/ step_l165
    \/ step_l166
    \/ step_l169
    \/ step_l174
    \/ step_l183
    \/ keyboard_interrupt
    \/ final_report

SpecMonitor == Init /\ [][MonitorNext]_vars

------------------------------------------------------------------------------
(* process_event called directly with events whose fields are any strings:  *)
(* DeauthEvent declares source_mac, dest_mac and frame_type as str and      *)
(* nothing between the caller and process_event looks at them.              *)

OpaqueEvents ==
    { DeauthEvent("2024-01-01T10:00:00", "a->b", "c", "a->b", "deauth", 1),
      DeauthEvent("2024-01-01T10:00:01", "a", "b->c", "a", "beacon", 1),
      DeauthEvent("2024-01-01T10:00:02", "", "c", "", "deauth", 0) }

OpaqueProcess ==
    /\ Len(events) < MaxEvents
    /\ \E e \in OpaqueEvents, t \in Clock : process_event(e, t)
    /\ UNCHANGED last_line

OpaqueNext == OpaqueProcess \/ Report

SpecOpaque == Init /\ [][OpaqueNext]_vars

------------------------------------------------------------------------------
(* demo_mode: the eight listed events in their order, a sleep of half a     *)
(* second after each, then get_stats.  The clock is counted in ticks of     *)
(* half a second; a sleep lasts one tick, or two when the process is held   *)
(* up.                                                                      *)

TicksPerSecond == 2
SleepTicks == {1, 2}

DemoTarget(i) == <<"11:22:33:44:55:66", BROADCAST, "77:88:99:aa:bb:cc">>[i]

DemoRow(src, dst, ftype) == [src |-> StatSource(src), dst |-> DemoTarget(dst), ftype |-> ftype]

\* The list of lines 252-261
DemoList ==
    << DemoRow(1, 1, "deauth"),
       DemoRow(1, 1, "deauth"),
       DemoRow(2, 2, "deauth"),
       DemoRow(1, 1, "deauth"),
       DemoRow(2, 2, "deauth"),
       DemoRow(2, 2, "deauth"),
       DemoRow(3, 3, "disassoc"),
       DemoRow(1, 1, "deauth") >>

\* datetime.now().isoformat() at the i-th turn of the loop
DemoTimestamp(i) ==
    <<"2024-01-01T10:00:00.0", "2024-01-01T10:00:00.5", "2024-01-01T10:00:01.0",
      "2024-01-01T10:00:01.5", "2024-01-01T10:00:02.0", "2024-01-01T10:00:02.5",
      "2024-01-01T10:00:03.0", "2024-01-01T10:00:03.5">>[i]

\* The event built at the i-th turn of the loop
DemoEvent(i) ==
    DeauthEvent(DemoTimestamp(i), DemoList[i].src, DemoList[i].dst, DemoList[i].src,
                DemoList[i].ftype, 1)

DemoInit == Construct(ScenarioThreshold, ScenarioWindow * TicksPerSecond)

\* One turn of the loop of lines 263-273
DemoTurn ==
    /\ Len(events) < Len(DemoList)
    /\ stats = NoStats
    /\ \E t \in (IF events = <<>> THEN {0}
                 ELSE {current_time + d : d \in SleepTicks}) :
          process_event(DemoEvent(Len(events) + 1), t)
    /\ UNCHANGED last_line

\* Line 276
DemoStats ==
    /\ Len(events) = Len(DemoList)
    /\ stats = NoStats
    /\ Snapshot(TopN)

DemoNext == DemoTurn \/ DemoStats

SpecDemo == DemoInit /\ [][DemoNext]_vars

------------------------------------------------------------------------------
(* Any integer is taken for --window: a detector whose window is 0 beside   *)
(* one whose window is positive.                                            *)

AnyWindows == {0, 1}

AnyWindowInit == \E th \in Thresholds, w \in AnyWindows : Construct(th, w)

SpecAnyWindow == AnyWindowInit /\ [][Next]_vars

------------------------------------------------------------------------------
(* parse_frame called with one line of tcpdump output at a time, as the     *)
(* loop of start_monitor calls it, and run to its return.                   *)

MaxParseEvents == 2

\* Sixteen characters with five colons, and seventeen with four
ShortPart == <<"b", "b", ":", "b", "b", ":", "b", "b", ":", "b", "b", ":", "b", "b", ":", "b">>
FourColonPart ==
    <<"c", "c", ":", "c", "c", ":", "c", "c", ":", "c", "c", ":", "c", "c", "c", "c", "c">>

ParseLines ==
    Lines \cup
    { <<MacPart("a", "1"), ShortPart, FourColonPart, ReasonPart>>,
      <<MacPart("a", "1"), ShortPart, MacPart("B", "1"), FourColonPart, DisassocPart>>,
      <<MacPart("a", "1"), MacPart("b", "1"), MacPart("C", "1"), MacPart("a", "2"),
        ReasonPart>> }

\* Lines 130-158 as one step: no event, or process_event on the event built
parse_frame_call ==
    /\ Len(events) < MaxParseEvents
    /\ \E line \in ParseLines, ts \in Timestamps, t \in Clock :
          LET e == parse_frame(line, ts)
          IN  /\ last_line' = line
              /\ IF e = NoEvent
                 THEN /\ last_op' = "parse_frame"
                      /\ UNCHANGED <<config, engine, running, stats, monitor,
                                     current_time, calls, recorded, want>>
                 ELSE process_event(e, t)

ParseNext == parse_frame_call \/ Report

SpecParse == Init /\ [][ParseNext]_vars

------------------------------------------------------------------------------
(* What the claims speak of.                                                *)

\* A step in which a process_event call returns
Returned == calls' = calls + 1

LastEvent == events[Len(events)]
LastKey == Key(LastEvent)

\* The post-prune window count of the key of the event processed last
WindowCount == Len(deauth_counts[LastKey])

AlertsOf(log, e) ==
    {i \in 1..Len(log) : log[i].source_mac = e.source_mac
                         /\ log[i].target_mac = e.dest_mac}

Appended(old, new) == Len(new) = Len(old) + 1 /\ SubSeq(new, 1, Len(old)) = old

NonDecreasing(seq) == \A i, j \in 1..Len(seq) : i < j => seq[i] <= seq[j]

FreshEver(key, now) == {i \in 1..Len(recorded[key]) : now - recorded[key][i] < window}

\* C1: a process_event call appends exactly one alert when the post-prune
\* window count of its key is >= threshold, and none when it is below.
C1_AlertIffThreshold ==
    [][Returned =>
         IF WindowCount' >= threshold
         THEN Appended(alerts, alerts')
              /\ AlertsOf(alerts', LastEvent') = AlertsOf(alerts, LastEvent') \cup {Len(alerts')}
         ELSE alerts' = alerts]_vars

\* The second event of a key completes a threshold of 2 and is the first to alert.
C1_Witness ==
    /\ threshold = 2
    /\ Len(events) = 2
    /\ WindowCount = 2
    /\ Len(alerts) = 1
    /\ alerts[1].frame_count = 2

\* C2 as stated: after the prune step, for every sequence of clock readings,
\* the count of the key equals the number of timestamps ever recorded for it
\* with now - t < window.
C2_CountIsFreshEver ==
    events # <<>> => WindowCount = Cardinality(FreshEver(LastKey, current_time))

\* C2 as amended: after the prune step no stored timestamp of the key with
\* now - t >= window is counted, and when the readings taken for the key are
\* non-decreasing the count equals the number of timestamps ever recorded
\* for it with now - t < window.
C2_CountIsFreshStored ==
    events # <<>> =>
        /\ \A i \in 1..WindowCount : current_time - deauth_counts[LastKey][i] < window
        /\ NonDecreasing(recorded[LastKey])
             => WindowCount = Cardinality(FreshEver(LastKey, current_time))

\* Readings in order, one of them aged out and two of them counted.
C2_Witness ==
    /\ events # <<>>
    /\ NonDecreasing(recorded[LastKey])
    /\ Len(recorded[LastKey]) = 3
    /\ WindowCount = 2

\* C3: once a key has alerted, every later process_event of that key that
\* leaves its post-prune count >= threshold appends one more alert for it.
C3_Retrigger ==
    [][(/\ Returned
        /\ AlertsOf(alerts, LastEvent') # {}
        /\ WindowCount' >= threshold)
       => /\ Appended(alerts, alerts')
          /\ alerts'[Len(alerts')].source_mac = LastEvent'.source_mac
          /\ alerts'[Len(alerts')].target_mac = LastEvent'.dest_mac
          /\ alerts'[Len(alerts')].frame_count = WindowCount']_vars

\* Three events of one key, threshold 2: the second and the third both alert,
\* the third with a count above the threshold.
C3_Witness ==
    /\ threshold = 2
    /\ Len(events) = 3
    /\ Cardinality(AlertsOf(alerts, LastEvent)) = 2
    /\ alerts[Len(alerts)].frame_count = 3

\* C4: an alert is (critical, Broadcast Deauth Attack) exactly when its
\* target is the string ff:ff:ff:ff:ff:ff and (high, Targeted Deauth Attack)
\* otherwise.
C4_Classification ==
    \A i \in 1..Len(alerts) :
        IF alerts[i].target_mac = BROADCAST
        THEN alerts[i].severity = "critical"
             /\ alerts[i].attack_type = "Broadcast Deauth Attack"
        ELSE alerts[i].severity = "high"
             /\ alerts[i].attack_type = "Targeted Deauth Attack"

\* A broadcast alert beside an alert whose target differs from the broadcast
\* address in case only.
C4_Witness ==
    /\ \E i \in 1..Len(alerts) : alerts[i].target_mac = BROADCAST
    /\ \E i \in 1..Len(alerts) : alerts[i].target_mac = "FF:FF:FF:FF:FF:FF"

\* C5: after N process_event calls get_stats reports total_events = N and
\* total_alerts = the number of alerts, and the per-source and the
\* per-target counts each sum to N.
C5_StatsConsistent ==
    /\ get_stats_result.total_events = calls
    /\ get_stats_result.total_alerts = Len(alerts)
    /\ CounterTotal(source_counts) = calls
    /\ CounterTotal(target_counts) = calls
    /\ last_op = "get_stats" => /\ stats.total_events = calls
                                /\ stats.total_alerts = Len(alerts)

\* A snapshot taken after three events of two sources, one of them repeated.
C5_Witness ==
    /\ last_op = "get_stats"
    /\ calls = 3
    /\ Len(source_counts) = 2
    /\ Len(alerts) >= 1

\* C6: an alert's frame_count is the post-prune count of the triggering
\* event's key, hence >= threshold, and its source_mac, target_mac, bssid and
\* timestamp are those of the triggering event.
C6_AlertFields ==
    /\ [](\A i \in 1..Len(alerts) : alerts[i].frame_count >= threshold)
    /\ [][(Returned /\ Len(alerts') > Len(alerts)) =>
            LET a == alerts'[Len(alerts')]
            IN  /\ a.frame_count = WindowCount'
                /\ a.source_mac = LastEvent'.source_mac
                /\ a.target_mac = LastEvent'.dest_mac
                /\ a.bssid = LastEvent'.bssid
                /\ a.timestamp = LastEvent'.timestamp]_vars

\* An alert for an event whose bssid is not its source, with a count of 2.
C6_Witness ==
    \E i \in 1..Len(alerts) : /\ alerts[i].bssid # alerts[i].source_mac
                              /\ alerts[i].frame_count = 2

\* The readings taken so far for the key of e
ReadingsOf(e) == Lookup(recorded, Key(e))

\* C7: with window 10 and threshold 3, A->B at 0,1,2 gives one Targeted alert
\* with frame_count 3 on the third event, C->broadcast at 0,2,5 one Broadcast
\* alert with frame_count 3 on the third, and a fourth A->B at 11 leaves
\* exactly the readings 2 and 11 and gives no alert.
C7_Scenario ==
    /\ ReadingsOf(EventAB) \in {<<0>>, <<0, 1>>} => AlertsOf(alerts, EventAB) = {}
    /\ ReadingsOf(EventCBroadcast) \in {<<0>>, <<0, 2>>}
          => AlertsOf(alerts, EventCBroadcast) = {}
    /\ ReadingsOf(EventAB) \in {<<0, 1, 2>>, <<0, 1, 2, 11>>} =>
          /\ Cardinality(AlertsOf(alerts, EventAB)) = 1
          /\ \A i \in AlertsOf(alerts, EventAB) :
                /\ alerts[i].attack_type = "Targeted Deauth Attack"
                /\ alerts[i].frame_count = 3
    /\ ReadingsOf(EventCBroadcast) = <<0, 2, 5>> =>
          /\ Cardinality(AlertsOf(alerts, EventCBroadcast)) = 1
          /\ \A i \in AlertsOf(alerts, EventCBroadcast) :
                /\ alerts[i].attack_type = "Broadcast Deauth Attack"
                /\ alerts[i].frame_count = 3
    /\ ReadingsOf(EventAB) = <<0, 1, 2, 11>> =>
          deauth_counts[Key(EventAB)] = <<2, 11>>

\* Both streams delivered in full, the fourth A->B event last.
C7_Witness ==
    /\ ReadingsOf(EventAB) = <<0, 1, 2, 11>>
    /\ ReadingsOf(EventCBroadcast) = <<0, 2, 5>>
    /\ LastEvent = EventAB
    /\ Len(alerts) = 2

RECURSIVE TotalLen(_)
TotalLen(dc) ==
    IF DOMAIN dc = {} THEN 0
    ELSE LET k == CHOOSE x \in DOMAIN dc : TRUE
         IN  Len(dc[k]) + TotalLen([x \in DOMAIN dc \ {k} |-> dc[x]])

\* Every step of process_event has been taken for every logged event
EventsComplete ==
    /\ calls = Len(events)
    /\ CounterTotal(source_counts) = Len(events)
    /\ CounterTotal(target_counts) = Len(events)
    /\ TotalLen(recorded) = Len(events)
    /\ events # <<>> =>
          LET stored == Lookup(deauth_counts, LastKey)
          IN  /\ \A i \in 1..Len(stored) : Fresh(stored[i], current_time)
              /\ ShouldAlert(Len(stored)) =>
                    \E i \in AlertsOf(alerts, LastEvent) :
                        alerts[i].frame_count = Len(stored)

\* C8: whenever the monitor loop has stopped, every event it accepted has
\* completed all steps of process_event, so the statistics and the alert log
\* read after the stop show no partially processed event.
C8_StopBetweenEvents ==
    pc = "stopped" =>
        /\ EventsComplete
        /\ stats # NoStats => stats.total_events = calls

Min(a, b) == IF a < b THEN a ELSE b

\* top is the first TopN of the MACs F picks from the events ev, by descending
\* number of events, equal numbers in the order of first appearance.
TopIsRight(top, ev, F(_)) ==
    LET macs == {F(ev[i]) : i \in 1..Len(ev)}
        occ(m) == {i \in 1..Len(ev) : F(ev[i]) = m}
        cnt(m) == Cardinality(occ(m))
        first(m) == CHOOSE i \in occ(m) : \A j \in occ(m) : i <= j
        before(m1, m2) == \/ cnt(m1) > cnt(m2)
                          \/ cnt(m1) = cnt(m2) /\ first(m1) < first(m2)
        listed == {top[i][1] : i \in 1..Len(top)}
    IN  /\ Len(top) = Min(TopN, Cardinality(macs))
        /\ \A i \in 1..Len(top) : top[i][1] \in macs /\ top[i][2] = cnt(top[i][1])
        /\ \A i, j \in 1..Len(top) : i < j => before(top[i][1], top[j][1])
        /\ \A m \in macs \ listed : \A i \in 1..Len(top) : before(top[i][1], m)

\* The events a snapshot was taken of
EventsAt(st) == SubSeq(events, 1, st.total_events)

\* C9 as stated: the number of entries is a parameter of the snapshot, so a
\* caller that asks for n entries gets the top n.
C9_TopNParameter ==
    stats # NoStats =>
        /\ Len(stats.top_sources) = Min(want, stats.unique_sources)
        /\ Len(stats.top_targets) = Min(want, stats.unique_targets)

\* C9 as amended: get_stats returns the top 5 entries of the per-source and
\* of the per-target table, by descending count, equal counts in the order in
\* which their MAC was first observed; 5 is fixed in get_stats, which has no
\* parameter for it.
C9_TopFive ==
    stats # NoStats =>
        /\ TopIsRight(stats.top_sources, EventsAt(stats), LAMBDA e : e.source_mac)
        /\ TopIsRight(stats.top_targets, EventsAt(stats), LAMBDA e : e.dest_mac)

\* Six sources seen once each, the third of them first: the five seen first
\* are listed in that order and the sixth is cut off.
C9_Witness ==
    /\ stats # NoStats
    /\ stats.unique_sources = 6
    /\ Len(stats.top_sources) = 5
    /\ stats.top_sources[1] = <<StatSource(3), 1>>
    /\ stats.top_sources[5] = <<StatSource(1), 1>>

\* C10: get_stats changes none of the event log, alert log, counters or
\* window store, and a second get_stats with no process_event in between
\* returns what the first returned.
C10_SnapshotIdempotent ==
    [][last_op' = "get_stats" =>
         /\ UNCHANGED engine
         /\ last_op = "get_stats" => stats' = stats]_vars

\* A snapshot of a non-empty engine, taken right after another snapshot.
C10_Witness ==
    /\ last_op = "get_stats"
    /\ stats.total_events = 2
    /\ stats.total_alerts >= 1

\* Every alert has a triggering event of its own in the event log, and the
\* alerts lie in the order of those events
InEventOrder(log, ev) ==
    \E f \in [1..Len(log) -> 1..Len(ev)] :
        /\ \A i, j \in 1..Len(log) : i < j => f[i] < f[j]
        /\ \A i \in 1..Len(log) :
              /\ log[i].source_mac = ev[f[i]].source_mac
              /\ log[i].target_mac = ev[f[i]].dest_mac
              /\ log[i].bssid = ev[f[i]].bssid
              /\ log[i].timestamp = ev[f[i]].timestamp

\* C11: across any step the previous alert log is a prefix of the new one
\* (no alert is modified or removed), the log grows only by one alert, in the
\* process_event call whose event reached the threshold, and the alerts lie in
\* the order of their triggering events.
C11_AppendOnly ==
    /\ [](InEventOrder(alerts, events))
    /\ [][/\ Len(alerts) <= Len(alerts')
          /\ SubSeq(alerts', 1, Len(alerts)) = alerts
          /\ alerts' # alerts =>
                /\ Returned
                /\ Appended(alerts, alerts')
                /\ WindowCount' >= threshold
                /\ alerts'[Len(alerts')] = generate_alert(LastEvent', WindowCount')]_vars

\* Three alerts of three different events, a later one appended behind them.
C11_Witness ==
    /\ Len(alerts) = 3
    /\ alerts[1].target_mac # alerts[2].target_mac
    /\ alerts[2].target_mac # alerts[3].target_mac
    /\ alerts[1].source_mac # alerts[3].source_mac

SamePair(e1, e2) == e1.source_mac = e2.source_mac /\ e1.dest_mac = e2.dest_mac

\* C12: for any strings as MAC fields, two events are counted in the same
\* window if and only if they have equal source_mac and equal dest_mac, so a
\* process_event call leaves the stored timestamps of every other pair as
\* they were.
C12_KeyInjective ==
    [][Returned =>
         \A e \in OpaqueEvents :
             IF SamePair(e, LastEvent')
             THEN Key(e) = LastKey'
             ELSE Lookup(deauth_counts', Key(e)) = Lookup(deauth_counts, Key(e))]_vars

\* An event a validation layer would turn away
Malformed(e) ==
    e.source_mac = "" \/ e.dest_mac = "" \/ e.frame_type \notin {"deauth", "disassoc"}

CountOf(c, mac) ==
    IF CounterIndex(c, mac) = {} THEN 0
    ELSE c[CHOOSE i \in CounterIndex(c, mac) : TRUE][2]

\* C13: a process_event call on an event with an empty MAC field or a
\* frame_type outside {deauth, disassoc} returns having logged the event,
\* counted its source and its target, recorded the reading in the window of
\* its key, pruned that window and alerted if and only if the count is
\* >= threshold, as for any event.
C13_MalformedProcessed ==
    [][(Returned /\ Malformed(LastEvent')) =>
         LET e == LastEvent'
             now == current_time'
             kept == SelectSeq(Append(Lookup(deauth_counts, Key(e)), now),
                               LAMBDA t : now - t < window)
         IN  /\ Appended(events, events')
             /\ CountOf(source_counts', e.source_mac) = CountOf(source_counts, e.source_mac) + 1
             /\ CountOf(target_counts', e.dest_mac) = CountOf(target_counts, e.dest_mac) + 1
             /\ CounterTotal(source_counts') = CounterTotal(source_counts) + 1
             /\ CounterTotal(target_counts') = CounterTotal(target_counts) + 1
             /\ recorded'[Key(e)] = Append(Lookup(recorded, Key(e)), now)
             /\ deauth_counts'[Key(e)] = kept
             /\ IF Len(kept) >= threshold
                THEN /\ Appended(alerts, alerts')
                     /\ alerts'[Len(alerts')].source_mac = e.source_mac
                     /\ alerts'[Len(alerts')].target_mac = e.dest_mac
                     /\ alerts'[Len(alerts')].frame_count = Len(kept)
                ELSE alerts' = alerts]_vars

\* An event without a source counted twice and alerted on, beside an event
\* of a frame type that is neither deauth nor disassoc.
C13_Witness ==
    /\ CountOf(source_counts, "") = 2
    /\ \E i \in 1..Len(alerts) : alerts[i].source_mac = "" /\ alerts[i].frame_count = 2
    /\ \E i \in 1..Len(events) : events[i].frame_type = "beacon"

\* C14: a start_monitor call in which starting tcpdump fails is reported
\* (pc = "failed": the handler has printed the error and the call has
\* returned) and leaves the event log, alert log, counters and window store
\* as they were before the call; get_stats and the alert log can be read
\* afterwards, and reading them changes none of these either.
C14_StartFailureHarmless ==
    /\ [][pc' = "failed" => UNCHANGED engine]_vars
    /\ [](pc = "failed" =>
            /\ get_stats_result.total_events = Len(events)
            /\ get_stats_result.total_alerts = Len(alerts)
            /\ get_stats_result.unique_sources = Len(source_counts)
            /\ stats = NoStats => ENABLED final_report)
    /\ [][(pc = "failed" /\ last_op' = "get_stats") => stats' = get_stats_result]_vars

\* A monitor that logged an event and an alert, was stopped, failed to start
\* again, and whose statistics were read after the failure.
C14_Witness ==
    /\ pc = "failed"
    /\ last_op = "get_stats"
    /\ Len(events) >= 1
    /\ Len(alerts) >= 1
    /\ stats.total_events = Len(events)
    /\ stats.total_alerts = Len(alerts)

IsSuffix(seq, of) ==
    Len(seq) <= Len(of) /\ SubSeq(of, Len(of) - Len(seq) + 1, Len(of)) = seq

\* The key's sequence as the prune step of the returning call found it
BeforePrune == Append(Lookup(deauth_counts, LastKey'), current_time')

\* C15 as stated: for every sequence of clock readings the key's sequence
\* after the prune step is a suffix of the sequence before it.
C15_PruneRemovesPrefix ==
    [][Returned => IsSuffix(deauth_counts'[LastKey'], BeforePrune)]_vars

\* C15 as amended: the prune step keeps exactly the timestamps t of the key's
\* sequence with now - t < window, in their order, wherever they stand; when
\* the sequence before the step is non-decreasing that is a suffix of it.
C15_PruneIsFilter ==
    [][Returned =>
         LET after == deauth_counts'[LastKey']
             kept == {i \in 1..Len(BeforePrune) :
                          current_time' - BeforePrune[i] < window}
         IN  /\ Len(after) = Cardinality(kept)
             /\ \A i \in kept :
                    after[Cardinality({j \in kept : j <= i})] = BeforePrune[i]
             /\ NonDecreasing(BeforePrune) => IsSuffix(after, BeforePrune)]_vars

\* Readings 2, 0, 2 of one key with window 2: the third call removes the 0
\* from between the two readings of 2.
C15_Witness ==
    /\ events # <<>>
    /\ window = 2
    /\ recorded[LastKey] = <<2, 0, 2>>
    /\ deauth_counts[LastKey] = <<2, 2>>

\* The keys of the events processed so far
KeysProcessed == {Key(events[i]) : i \in 1..Len(events)}

\* C16: every key that has been processed is in the window store, no step
\* removes a key from it, and a key's stored timestamps change only in a
\* process_event call for that key.
C16_NoEviction ==
    /\ [](KeysProcessed = DOMAIN deauth_counts)
    /\ [][/\ DOMAIN deauth_counts \subseteq DOMAIN deauth_counts'
          /\ \A k \in DOMAIN deauth_counts :
                deauth_counts'[k] # deauth_counts[k] => Returned /\ k = LastKey']_vars

\* An idle key still holds a timestamp that is stale at the latest reading,
\* two events of another key later, and a snapshot has been taken.
C16_Witness ==
    /\ Len(events) = 3
    /\ last_op = "get_stats"
    /\ \E k \in DOMAIN deauth_counts :
          /\ k # LastKey
          /\ k = Key(events[1])
          /\ Key(events[2]) = LastKey
          /\ \E i \in 1..Len(deauth_counts[k]) :
                current_time - deauth_counts[k][i] >= window

\* The turns of the demo loop whose event is marked "Triggers alert"
DemoMarked == {4, 6}

DemoAlert(a, i, type, count) ==
    /\ a.source_mac = DemoList[i].src
    /\ a.target_mac = DemoList[i].dst
    /\ a.attack_type = type
    /\ a.frame_count = count

DemoFinalStats ==
    last_op = "get_stats" =>
        /\ stats.total_events = 8
        /\ stats.unique_sources = 3
        /\ stats.unique_targets = 3

\* C17 as stated: in the demo sequence the fourth event emits a Targeted
\* alert with frame_count 3 and the sixth a Broadcast alert with frame_count
\* 3, no other event of the list emits an alert, and the final statistics are
\* total_events = 8, unique_sources = 3, unique_targets = 3.
C17_DemoAsMarked ==
    /\ [][Returned =>
            LET i == Len(events')
                a == alerts'[Len(alerts')]
            IN  /\ alerts' # alerts <=> i \in DemoMarked
                /\ i = 4 => DemoAlert(a, 4, "Targeted Deauth Attack", 3)
                /\ i = 6 => DemoAlert(a, 6, "Broadcast Deauth Attack", 3)]_vars
    /\ []DemoFinalStats

\* C17 as amended: the fourth and the sixth event emit those alerts, and so
\* does the unmarked eighth event, the fourth aa:..:01 -> 11:22:33:44:55:66
\* within the window, with a Targeted alert of frame_count 4; no other event
\* emits an alert and the final statistics add total_alerts = 3.
C17_Demo ==
    /\ [][Returned =>
            LET i == Len(events')
                a == alerts'[Len(alerts')]
            IN  /\ alerts' # alerts <=> i \in DemoMarked \cup {8}
                /\ i = 4 => DemoAlert(a, 4, "Targeted Deauth Attack", 3)
                /\ i = 6 => DemoAlert(a, 6, "Broadcast Deauth Attack", 3)
                /\ i = 8 => DemoAlert(a, 8, "Targeted Deauth Attack", 4)]_vars
    /\ [](DemoFinalStats /\ (last_op = "get_stats" => stats.total_alerts = 3))

\* The demo run to its end with every sleep half a second long.
C17_Witness ==
    /\ last_op = "get_stats"
    /\ current_time = 7
    /\ Len(alerts) = 3
    /\ alerts[3].frame_count = 4
    /\ stats.total_events = 8

\* C18: with a positive window the timestamp a process_event call records
\* survives that call's prune, so the key's stored sequence ends with it and
\* its count is >= 1 after the call, and no stored sequence is empty; with
\* threshold = 1 every call then appends an alert.
C18_OwnTimestampSurvives ==
    /\ [][(Returned /\ window > 0) =>
            LET stored == deauth_counts'[LastKey']
            IN  /\ Len(stored) >= 1
                /\ stored[Len(stored)] = current_time'
                /\ threshold = 1 =>
                      /\ Appended(alerts, alerts')
                      /\ alerts'[Len(alerts')].source_mac = LastEvent'.source_mac
                      /\ alerts'[Len(alerts')].target_mac = LastEvent'.dest_mac]_vars
    /\ [](window > 0 => /\ \A k \in DOMAIN deauth_counts : deauth_counts[k] # <<>>
                        /\ threshold = 1 => Len(alerts) = Len(events))

\* Three events of one key at readings 0, 1, 2 with window 1 and threshold 1:
\* each call prunes down to its own timestamp and alerts.
C18_Witness ==
    /\ window = 1
    /\ threshold = 1
    /\ Len(events) = 3
    /\ recorded[LastKey] = <<0, 1, 2>>
    /\ deauth_counts[LastKey] = <<2>>
    /\ Len(alerts) = 3

\* The positions of the tokens of a line that have length 17 and exactly
\* five ':'
ShapedAt(line) ==
    {i \in 1..Len(line) :
        Len(line[i]) = 17 /\ Cardinality({j \in 1..Len(line[i]) : line[i][j] = ":"}) = 5}

\* The n-th such token, lowercased
ShapedToken(line, n) ==
    Lower(line[CHOOSE i \in ShapedAt(line) :
                   Cardinality({j \in ShapedAt(line) : j <= i}) = n])

\* C19: parse_frame on a line with fewer than two MAC-shaped tokens creates
\* no event and leaves event log, alert log, counters and window store
\* unchanged; on a line with at least two it processes exactly one event,
\* whose source_mac is the first such token lowercased, dest_mac the second
\* and bssid the third if there is one and otherwise the first.
C19_ParseFrame ==
    [][last_op' # "get_stats" =>
         LET n == Cardinality(ShapedAt(last_line'))
         IN  IF n < 2
             THEN UNCHANGED engine /\ calls' = calls
             ELSE /\ Returned
                  /\ Appended(events, events')
                  /\ CounterTotal(source_counts') = CounterTotal(source_counts) + 1
                  /\ CounterTotal(target_counts') = CounterTotal(target_counts) + 1
                  /\ TotalLen(recorded') = TotalLen(recorded) + 1
                  /\ LastEvent'.source_mac = ShapedToken(last_line', 1)
                  /\ LastEvent'.dest_mac = ShapedToken(last_line', 2)
                  /\ LastEvent'.bssid = IF n > 2 THEN ShapedToken(last_line', 3)
                                        ELSE ShapedToken(last_line', 1)]_vars

\* An event of a line with four MAC-shaped tokens, one of them in upper
\* case, then a line whose only second and third candidates are a token one
\* character short and a token one colon short: no event of it.
C19_Witness ==
    /\ Len(events) = 1
    /\ calls = 1
    /\ LastEvent.source_mac = "aa:aa:aa:aa:aa:a1"
    /\ LastEvent.dest_mac = "bb:bb:bb:bb:bb:b1"
    /\ LastEvent.bssid = "cc:cc:cc:cc:cc:c1"
    /\ last_op = "parse_frame"
    /\ last_line = <<MacPart("a", "1"), ShortPart, FourColonPart, ReasonPart>>

====
